---- MODULE Spec2Model ----
(***************************************************************************)
(* A model of the openff-docs example-notebook pipeline:                   *)
(*   source/_ext/proc_examples.py   needed_files, create_colab_notebook,   *)
(*                                  create_zip, execute_notebook,          *)
(*                                  get_stable_tagname, clean_up_notebook, *)
(*                                  main                                   *)
(*   source/_ext/cookbook/globals.py  the path and name constants          *)
(*                                                                         *)
(* Three specifications share the module:                                  *)
(*   SpecFiles  needed_files applied to a notebook path and the listing    *)
(*              of the notebook's directory;                               *)
(*   SpecTags   get_stable_tagname applied to a paginated release listing; *)
(*   Spec       main: fetch, diff, clean-up, packaging, pool execution.    *)
(***************************************************************************)
EXTENDS Integers, Sequences, FiniteSets, TLC

VARIABLES
    nfArgs,      \* needed_files: the call's inputs
    nfOut,       \* needed_files: the call's outcome
    tgIn,        \* get_stable_tagname: the responses the release API gives
    tgOut,       \* get_stable_tagname: the call's outcome
    pc,          \* main: the stage main is in
    flags,       \* main: do_proc, do_exec, redo_all
    repoIdx,     \* main: index into GITHUB_REPOS of the next repo to fetch
    updates,     \* main: the accumulated UpdatedNotebooks
    found,       \* main: what find_notebooks(SRC_IPYNB_ROOT) yielded (line 259)
    notebooks,   \* main: the local `notebooks` after lines 259-277
    toClean,     \* main: updates.cleanup entries the loop of line 279 has not visited
    packaged,    \* main: notebooks the loop of line 284 has finished
    execState,   \* pool: per notebook "pending", "running", "written" or "failed"
    poolAlive,   \* pool: TRUE between Pool().__enter__ and terminate()
    fs,          \* the paths that exist under the three output roots
    raised,      \* the exceptions raised so far, as <<kind, where>>
    cleared      \* the output roots shutil.rmtree was called on (lines 266-268)

filesVars == <<nfArgs, nfOut>>
tagsVars  == <<tgIn, tgOut>>
mainVars  == <<pc, flags, repoIdx, updates, found, notebooks, toClean, packaged,
               execState, poolAlive, fs, raised, cleared>>
vars      == <<nfArgs, nfOut, tgIn, tgOut, pc, flags, repoIdx, updates, found,
               notebooks, toClean, packaged, execState, poolAlive, fs, raised,
               cleared>>

(***************************************************************************)
(* pathlib.  A path is the sequence of its parts; a part is a record of    *)
(* its stem and its suffix, so that with_suffix and name comparisons are   *)
(* computed, not assumed.  Path(".") is the empty sequence.                *)
(***************************************************************************)
Part(stem, suffix) == [stem |-> stem, suffix |-> suffix]

Name(path) == path[Len(path)]

Parent(path) == SubSeq(path, 1, Len(path) - 1)

IsAbsolute(path) == Len(path) > 0 /\ path[1] = Part("/", "")

\* path / rel
Join(path, rel) == IF IsAbsolute(rel) THEN rel ELSE path \o rel

WithSuffix(path, suffix) == [path EXCEPT ![Len(path)].suffix = suffix]

IsRelativeTo(path, base) ==
    /\ Len(base) <= Len(path)
    /\ SubSeq(path, 1, Len(base)) = base

RelativeTo(path, base) == SubSeq(path, Len(base) + 1, Len(path))

IsUnder(path, root) == IsRelativeTo(path, root)

(***************************************************************************)
(* cookbook/globals.py                                                     *)
(***************************************************************************)
PACKAGED_ENV_NAME == <<Part("environment", ".yaml")>>

OPENFF_DOCS_ROOT == <<Part("/", ""), Part("openff-docs", "")>>

UNIVERSAL_ENV_PATH ==
    Join(OPENFF_DOCS_ROOT,
         <<Part("devtools", ""), Part("conda-envs", ""), Part("examples_env", ".yml")>>)

IGNORED_FILES ==
    { Part(".gitignore", ""), Part("Thumbs", ".db"), Part(".DS_Store", ""),
      Part("thumbnail", ".png"), Part("__pycache__", "") }

GITHUB_REPOS == << <<Part("openforcefield", ""), Part("openff-toolkit", "")>>,
                   <<Part("openforcefield", ""), Part("openff-interchange", "")>> >>

SRC_IPYNB_ROOT == Join(OPENFF_DOCS_ROOT, <<Part("build", ""), Part("notebook-src", "")>>)

EXEC_IPYNB_ROOT == Join(OPENFF_DOCS_ROOT, <<Part("source", ""), Part("notebooks", "")>>)

COLAB_IPYNB_ROOT ==
    Join(OPENFF_DOCS_ROOT, <<Part("source", ""), Part("_static", ""), Part("colab", "")>>)

ZIPPED_IPYNB_ROOT ==
    Join(OPENFF_DOCS_ROOT, <<Part("source", ""), Part("_static", ""), Part("examples", "")>>)

(***************************************************************************)
(* needed_files (proc_examples.py 31-92).  `listing` is the set of names   *)
(* notebook_path.parent.iterdir() yields; `bare` is what is_bare_notebook  *)
(* answers.  The dict `files` is the set of its items.                     *)
(***************************************************************************)
Iterdir(dir, listing) == { Join(dir, <<name>>) : name \in listing }

\* files[key] = value, written as a list append: an existing key keeps its item
DictAppend(items, key, value) == items \cup { <<key, value>> }

DictSet(items, key, value) ==
    { item \in items : item[1] # key } \cup { <<key, value>> }

SrcPaths(notebook_path, bare, listing) ==
    IF bare
    THEN { notebook_path }
    ELSE { path \in Iterdir(Parent(notebook_path), listing) :
             Name(path) \notin IGNORED_FILES }

EnvironmentFiles(src_paths) ==
    { path \in src_paths :
        <<Name(path)>> \in { WithSuffix(PACKAGED_ENV_NAME, ".yaml"),
                             WithSuffix(PACKAGED_ENV_NAME, ".yml") } }

Returned(items) == [called |-> TRUE, raised |-> FALSE, items |-> items]

Raised == [called |-> TRUE, raised |-> TRUE, items |-> {}]

NotCalled == [called |-> FALSE, raised |-> FALSE, items |-> {}]

\* lines 72-90 with the single candidate left under the name it has
ResolveEnvironmentKeepName(files, environment_files) ==
    IF Cardinality(environment_files) = 0
    THEN Returned(DictSet(files, UNIVERSAL_ENV_PATH, PACKAGED_ENV_NAME))
    ELSE IF Cardinality(environment_files) = 1
    THEN Returned(files)
    ELSE IF PACKAGED_ENV_NAME \in environment_files
    THEN Returned(files)
    ELSE Raised

ResolveEnvironment(files, environment_files) ==
    IF Cardinality(environment_files) = 0
    THEN Returned(DictSet(files, UNIVERSAL_ENV_PATH, PACKAGED_ENV_NAME))
    ELSE IF Cardinality(environment_files) = 1
    THEN Returned(DictSet(files, CHOOSE path \in environment_files : TRUE,
                          PACKAGED_ENV_NAME))
    ELSE IF PACKAGED_ENV_NAME \in environment_files
    THEN Returned(files)
    ELSE Raised

needed_files(notebook_path, bare, listing) ==
    LET src_paths == SrcPaths(notebook_path, bare, listing)
        files == { <<path, RelativeTo(path, Parent(notebook_path))>> :
                     path \in src_paths }
    IN  ResolveEnvironment(files, EnvironmentFiles(src_paths))

(***************************************************************************)
(* packaging.version.Version and get_stable_tagname (209-225).  A tag is   *)
(* the sequence of its characters; the tags considered are plain release   *)
(* numbers N(.N)*, for which Version's sort key is the release tuple with  *)
(* its trailing zeros stripped (epoch, pre, post, dev and local are the    *)
(* same for all of them).                                                  *)
(***************************************************************************)
Digits == <<"0", "1", "2", "3", "4", "5", "6", "7", "8", "9">>

DigitValue(char) == (CHOOSE i \in 1..Len(Digits) : Digits[i] = char) - 1

\* ord(char) for the characters of a release number
Ord(char) == IF char = "." THEN 46 ELSE 48 + DigitValue(char)

RECURSIVE ParseFrom(_, _, _, _)
ParseFrom(tag, i, current, acc) ==
    IF i > Len(tag)
    THEN Append(acc, current)
    ELSE IF tag[i] = "."
    THEN ParseFrom(tag, i + 1, 0, Append(acc, current))
    ELSE ParseFrom(tag, i + 1, current * 10 + DigitValue(tag[i]), acc)

ParseRelease(tag) == ParseFrom(tag, 1, 0, <<>>)

RECURSIVE StripTrailingZeros(_)
StripTrailingZeros(release) ==
    IF Len(release) > 0 /\ release[Len(release)] = 0
    THEN StripTrailingZeros(SubSeq(release, 1, Len(release) - 1))
    ELSE release

\* the tag's characters as the key: the comparison of the tags as strings
VersionAsString(tag) == [i \in 1..Len(tag) |-> Ord(tag[i])]

Version(tag) == StripTrailingZeros(ParseRelease(tag))

\* Python's tuple order
RECURSIVE KeyLess(_, _)
KeyLess(a, b) ==
    IF Len(b) = 0 THEN FALSE
    ELSE IF Len(a) = 0 THEN TRUE
    ELSE IF a[1] # b[1] THEN a[1] < b[1]
    ELSE KeyLess(Tail(a), Tail(b))

\* max(tags, key=Version): the first tag no later one exceeds
RECURSIVE MaxFrom(_, _, _)
MaxFrom(tags, i, best) ==
    IF i > Len(tags) THEN best
    ELSE IF KeyLess(Version(best), Version(tags[i]))
    THEN MaxFrom(tags, i + 1, tags[i])
    ELSE MaxFrom(tags, i + 1, best)

RaisesForStatus(status) == 400 <= status /\ status < 600

TagReturned(tag) == [called |-> TRUE, raised |-> "no", tag |-> tag]

TagRaised(what) == [called |-> TRUE, raised |-> what, tag |-> <<>>]

TagNotCalled == [called |-> FALSE, raised |-> "no", tag |-> <<>>]

\* responses[i] is the i-th page; it links to a next page iff there is one
RECURSIVE Listing(_, _, _)
Listing(responses, i, release_tags) ==
    IF RaisesForStatus(responses[i].status)
    THEN TagRaised("HTTPError")
    ELSE LET tags == release_tags \o responses[i].tags
         IN  IF i < Len(responses)
             THEN Listing(responses, i + 1, tags)
             ELSE IF Len(tags) = 0
             THEN TagRaised("ValueError")
             ELSE TagReturned(MaxFrom(tags, 2, tags[1]))

get_stable_tagname(responses) == Listing(responses, 1, <<>>)

(***************************************************************************)
(* Inputs.                                                                 *)
(***************************************************************************)
MaxPages == 2
MaxPerPage == 1
MaxNotebooks == 2

Tag_0_9_0  == <<"0", ".", "9", ".", "0">>
Tag_0_10_0 == <<"0", ".", "1", "0", ".", "0">>
Tag_0_10   == <<"0", ".", "1", "0">>
Tag_1_0    == <<"1", ".", "0">>

TagPool == { Tag_0_9_0, Tag_0_10_0, Tag_0_10, Tag_1_0 }

StatusCodes == { 200, 404 }

SeqsUpTo(S, n) == UNION { [1..k -> S] : k \in 0..n }

Responses == [status : StatusCodes, tags : SeqsUpTo(TagPool, MaxPerPage)]

ResponseSeqs == UNION { [1..k -> Responses] : k \in 1..MaxPages }

NotebookName == Part("notebook", ".ipynb")

DirNames == <<"conformer_energies", "ligand_in_water", "toolkit_showcase", "packed_box">>

NotebookIds == 1..MaxNotebooks

RepoOf(k) == GITHUB_REPOS[((k - 1) % Len(GITHUB_REPOS)) + 1]

\* a notebook of the examples directory of its repo, relative to SRC_IPYNB_ROOT
RelPath(k) == Join(RepoOf(k), <<Part("examples", ""), Part(DirNames[k], ""), NotebookName>>)

SrcPath(k) == Join(SRC_IPYNB_ROOT, RelPath(k))

AllNotebooks == { SrcPath(k) : k \in NotebookIds }

FileNames ==
    { NotebookName, Part("environment", ".yaml"), Part("environment", ".yml"),
      Part("molecule", ".sdf"), Part("thumbnail", ".png") }

Listings == { listing \in SUBSET FileNames : NotebookName \in listing }

NotebookPaths == { <<NotebookName>>, SrcPath(1), SrcPath(2) }

(***************************************************************************)
(* SpecFiles: one call of needed_files.                                    *)
(***************************************************************************)
MainIdle ==
    /\ pc = "idle"
    /\ flags = [do_proc |-> FALSE, do_exec |-> FALSE, redo_all |-> FALSE]
    /\ repoIdx = 1
    /\ updates = [reprocess |-> {}, cleanup |-> {}, rebuild_all |-> {}]
    /\ found = {}
    /\ notebooks = {}
    /\ toClean = {}
    /\ packaged = {}
    /\ execState = <<>>
    /\ poolAlive = FALSE
    /\ fs = {}
    /\ raised = {}
    /\ cleared = {}

InitFiles ==
    /\ nfArgs \in [notebook_path : NotebookPaths, bare : BOOLEAN, listing : Listings]
    /\ nfOut = NotCalled
    /\ tgIn = <<>>
    /\ tgOut = TagNotCalled
    /\ MainIdle

NeededFilesCall ==
    /\ ~nfOut.called
    /\ nfOut' = needed_files(nfArgs.notebook_path, nfArgs.bare, nfArgs.listing)
    /\ UNCHANGED <<nfArgs, tagsVars, mainVars>>

NextFiles == NeededFilesCall

SpecFiles == InitFiles /\ [][NextFiles]_vars

(***************************************************************************)
(* SpecTags: one call of get_stable_tagname.                               *)
(***************************************************************************)
InitTags ==
    /\ tgIn \in ResponseSeqs
    /\ tgOut = TagNotCalled
    /\ nfArgs = [notebook_path |-> <<NotebookName>>, bare |-> TRUE,
                 listing |-> {NotebookName}]
    /\ nfOut = NotCalled
    /\ MainIdle

GetStableTagnameCall ==
    /\ ~tgOut.called
    /\ tgOut' = get_stable_tagname(tgIn)
    /\ UNCHANGED <<tgIn, filesVars, mainVars>>

NextTags == GetStableTagnameCall

SpecTags == InitTags /\ [][NextTags]_vars

(***************************************************************************)
(* Properties of needed_files, under SpecFiles.                            *)
(***************************************************************************)
EnvYaml == Part("environment", ".yaml")
EnvYml  == Part("environment", ".yml")

\* the environment files of the notebook's directory that needed_files looks at
Candidates == IF nfArgs.bare THEN {} ELSE nfArgs.listing \cap { EnvYaml, EnvYml }

CandidatePath(name) == Join(Parent(nfArgs.notebook_path), <<name>>)

\* the sources the outcome sends to environment.yaml
PackagedEnvSources == { item[1] : item \in { i \in nfOut.items : i[2] = PACKAGED_ENV_NAME } }

\* C1: for a notebook under SRC_IPYNB_ROOT that is not bare and whose
\* directory holds both environment.yaml and environment.yml, needed_files
\* returns without raising and environment.yaml of that directory is what
\* it maps to the canonical name.
C1_CanonicalCandidateWins ==
    ( /\ nfOut.called
      /\ IsUnder(nfArgs.notebook_path, SRC_IPYNB_ROOT)
      /\ ~nfArgs.bare
      /\ { EnvYaml, EnvYml } \subseteq nfArgs.listing )
    => /\ ~nfOut.raised
       /\ <<CandidatePath(EnvYaml), PACKAGED_ENV_NAME>> \in nfOut.items

\* C2: whenever needed_files returns, no two items of the mapping share a
\* source path and exactly one item has the destination environment.yaml.
C2_OneEnvironmentEntry ==
    (nfOut.called /\ ~nfOut.raised)
    => /\ \A a, b \in nfOut.items : a[1] = b[1] => a = b
       /\ Cardinality({ item \in nfOut.items : item[2] = PACKAGED_ENV_NAME }) = 1

C2_Witness ==
    /\ nfOut.called
    /\ ~nfOut.raised
    /\ ~nfArgs.bare
    /\ Candidates = { EnvYml }
    /\ Part("molecule", ".sdf") \in nfArgs.listing
    /\ Cardinality(nfOut.items) = 3

\* C3: when needed_files returns, the source mapped to environment.yaml is
\* UNIVERSAL_ENV_PATH if the notebook has no candidate (every bare notebook
\* has none), and is the candidate if there is exactly one, in which case
\* no item keeps environment.yml as its destination.
C3_EnvironmentSource ==
    (nfOut.called /\ ~nfOut.raised)
    => /\ Cardinality(Candidates) = 0
            => PackagedEnvSources = { UNIVERSAL_ENV_PATH }
       /\ Cardinality(Candidates) = 1
            => /\ PackagedEnvSources = { CandidatePath(name) : name \in Candidates }
               /\ \A item \in nfOut.items : item[2] # <<EnvYml>>

C3_Witness ==
    /\ nfOut.called
    /\ ~nfOut.raised
    /\ Candidates = { EnvYml }
    /\ IsUnder(nfArgs.notebook_path, SRC_IPYNB_ROOT)
    /\ <<CandidatePath(EnvYml), PACKAGED_ENV_NAME>> \in nfOut.items

(***************************************************************************)
(* Properties of get_stable_tagname, under SpecTags.                       *)
(***************************************************************************)
\* the tags of all the pages
AllTags == UNION { { tgIn[i].tags[j] : j \in 1..Len(tgIn[i].tags) } : i \in 1..Len(tgIn) }

Component(release, i) == IF i <= Len(release) THEN release[i] ELSE 0

\* a's release number is greater than b's, component by component as numbers
NumericallyNewer(a, b) ==
    LET ra == ParseRelease(a)
        rb == ParseRelease(b)
        n  == IF Len(ra) > Len(rb) THEN Len(ra) ELSE Len(rb)
    IN  \E i \in 1..n :
            /\ Component(ra, i) > Component(rb, i)
            /\ \A j \in 1..(i - 1) : Component(ra, j) = Component(rb, j)

\* C9: the tag get_stable_tagname returns is a tag of some page of the
\* listing, and no tag of any page has a numerically greater version.
C9_GreatestVersionOfAllPages ==
    (tgOut.called /\ tgOut.raised = "no")
    => /\ tgOut.tag \in AllTags
       /\ \A tag \in AllTags : ~NumericallyNewer(tag, tgOut.tag)

C9_Witness ==
    /\ tgOut.called
    /\ tgOut.raised = "no"
    /\ Len(tgIn) = 2
    /\ tgIn[1].tags = <<Tag_0_9_0>>
    /\ tgIn[2].tags = <<Tag_0_10_0>>
    /\ tgOut.tag = Tag_0_10_0

(***************************************************************************)
(* The output files.  notebook_zip and notebook_colab are cookbook.notebook*)
(* functions: the archive and the Colab copy mirror the notebook's path    *)
(* under their roots.                                                      *)
(***************************************************************************)
notebook_zip(notebook) ==
    WithSuffix(Join(ZIPPED_IPYNB_ROOT, RelativeTo(notebook, SRC_IPYNB_ROOT)), ".zip")

notebook_colab(notebook) == Join(COLAB_IPYNB_ROOT, RelativeTo(notebook, SRC_IPYNB_ROOT))

\* EXEC_IPYNB_ROOT / notebook.relative_to(SRC_IPYNB_ROOT)
ExecPath(notebook) == Join(EXEC_IPYNB_ROOT, RelativeTo(notebook, SRC_IPYNB_ROOT))

OutputRoots == { EXEC_IPYNB_ROOT, COLAB_IPYNB_ROOT, ZIPPED_IPYNB_ROOT }

\* shutil.rmtree(root): what is left of `files`
Rmtree(files, root) == { path \in files : ~IsUnder(path, root) }

FsResult(failed, files) == [raised |-> failed, fs |-> files]

\* what a run with packaging leaves for a notebook, and a run with execution
PackagedFiles(notebook) ==
    { notebook_zip(notebook), Parent(notebook_colab(notebook)), notebook_colab(notebook),
      Join(Parent(notebook_colab(notebook)), PACKAGED_ENV_NAME) }

ExecutedFiles(notebook) == { ExecPath(notebook) }

(***************************************************************************)
(* clean_up_notebook (228-237).  unlink and rmtree raise FileNotFoundError *)
(* on a path that does not exist; what was deleted before stays deleted.   *)
(***************************************************************************)
\* clean_up_notebook without its last two lines: the executed copy is kept
clean_up_notebook_keeps_exec(files, notebook) ==
    LET zip == notebook_zip(notebook)
        colab_dir == Parent(notebook_colab(notebook))
    IN  IF zip \notin files THEN FsResult(TRUE, files)
        ELSE IF colab_dir \notin files THEN FsResult(TRUE, files \ {zip})
        ELSE FsResult(FALSE, Rmtree(files \ {zip}, colab_dir))

clean_up_notebook(files, notebook) ==
    LET zip == notebook_zip(notebook)
        colab_dir == Parent(notebook_colab(notebook))
        exec_notebook == ExecPath(notebook)
        files1 == files \ {zip}
        files2 == Rmtree(files1, colab_dir)
    IN  IF zip \notin files THEN FsResult(TRUE, files)
        ELSE IF colab_dir \notin files1 THEN FsResult(TRUE, files1)
        ELSE IF ~IsRelativeTo(notebook, SRC_IPYNB_ROOT) THEN FsResult(TRUE, files2)
        ELSE IF exec_notebook \notin files2 THEN FsResult(TRUE, files2)
        ELSE FsResult(FALSE, files2 \ {exec_notebook})

(***************************************************************************)
(* create_colab_notebook (112-154) and create_zip (95-109).                *)
(***************************************************************************)
create_colab_notebook(files, src, bare, listing) ==
    LET dst == notebook_colab(src)
        made == files \cup { Parent(dst) }
        needed == needed_files(src, bare, listing)
        copied == made \cup { Join(Parent(dst), item[2]) : item \in needed.items }
    IN  IF needed.raised THEN FsResult(TRUE, made)
        ELSE IF Join(Parent(dst), PACKAGED_ENV_NAME) \notin copied
        THEN FsResult(TRUE, copied)
        ELSE FsResult(FALSE, copied \cup { dst })

create_zip(files, notebook_path, bare, listing) ==
    LET zip_path == notebook_zip(notebook_path)
        needed == needed_files(notebook_path, bare, listing)
    IN  FsResult(needed.raised, files \cup { zip_path })

(***************************************************************************)
(* main (240-296).                                                         *)
(***************************************************************************)
UpdatedNotebooks(reprocess, cleanup, rebuild_all) ==
    [reprocess |-> reprocess, cleanup |-> cleanup, rebuild_all |-> rebuild_all]

\* UpdatedNotebooks.extend
Extend(a, b) ==
    UpdatedNotebooks(a.reprocess \cup b.reprocess, a.cleanup \cup b.cleanup,
                     a.rebuild_all \cup b.rebuild_all)

\* What download_dir may report for a repo: either that the repo is to be
\* rebuilt, or for each of its notebooks that it is unchanged, changed
\* (reprocess, relative to SRC_IPYNB_ROOT) or removed (cleanup).
Reports(repo) ==
    LET ids == { k \in NotebookIds : RepoOf(k) = repo }
    IN  { UpdatedNotebooks({}, {}, {repo}) }
        \cup { UpdatedNotebooks({ RelPath(k) : k \in { i \in ids : st[i] = "changed" } },
                                { SrcPath(k) : k \in { i \in ids : st[i] = "removed" } },
                                {}) :
               st \in [ids -> {"unchanged", "changed", "removed"}] }

\* the release listings the fetch of a repo is tried on
FetchResponses ==
    { <<[status |-> 200, tags |-> <<Tag_0_9_0>>], [status |-> 200, tags |-> <<Tag_0_10_0>>]>>,
      <<[status |-> 200, tags |-> <<Tag_0_9_0>>], [status |-> 404, tags |-> <<>>]>>,
      <<[status |-> 404, tags |-> <<>>]>> }

\* the directory listings a notebook is packaged with
PackListings ==
    { {NotebookName},
      {NotebookName, Part("environment", ".yml")},
      {NotebookName, Part("environment", ".yaml"), Part("environment", ".yml")} }

Kinds == { event[1] : event \in raised }

Init ==
    /\ nfArgs = [notebook_path |-> <<NotebookName>>, bare |-> TRUE,
                 listing |-> {NotebookName}]
    /\ nfOut = NotCalled
    /\ tgIn = <<>>
    /\ tgOut = TagNotCalled
    /\ pc = "fetch"
    /\ flags \in [do_proc : BOOLEAN, do_exec : BOOLEAN, redo_all : BOOLEAN]
    /\ repoIdx = 1
    /\ updates = UpdatedNotebooks({}, {}, {})
    /\ found = {}
    /\ notebooks = {}
    /\ toClean = {}
    /\ packaged = {}
    /\ execState = [notebook \in AllNotebooks |-> "pending"]
    /\ poolAlive = FALSE
    /\ \E P, E \in SUBSET AllNotebooks :
          fs = UNION ({ PackagedFiles(nb) : nb \in P } \cup { ExecutedFiles(nb) : nb \in E })
    /\ raised = {}
    /\ cleared = {}

\* lines 245-256 with the error of get_stable_tagname caught: the loop goes on
FetchIgnoringErrors ==
    /\ pc = "fetch"
    /\ \E responses \in FetchResponses, report \in Reports(GITHUB_REPOS[repoIdx]) :
          LET tag == get_stable_tagname(responses)
          IN  /\ raised' = IF tag.raised # "no"
                           THEN raised \cup { <<tag.raised, GITHUB_REPOS[repoIdx]>> }
                           ELSE raised
              /\ updates' = Extend(updates, report)
              /\ repoIdx' = IF repoIdx = Len(GITHUB_REPOS) THEN repoIdx ELSE repoIdx + 1
              /\ pc' = IF repoIdx = Len(GITHUB_REPOS) THEN "diff" ELSE "fetch"
    /\ UNCHANGED <<filesVars, tagsVars, flags, found, notebooks, toClean, packaged,
                   execState, poolAlive, fs, cleared>>

\* lines 245-256, one repo: get_stable_tagname, then download_dir
Fetch ==
    /\ pc = "fetch"
    /\ \E responses \in FetchResponses, report \in Reports(GITHUB_REPOS[repoIdx]) :
          LET tag == get_stable_tagname(responses)
          IN  IF tag.raised # "no"
              THEN /\ raised' = raised \cup { <<tag.raised, GITHUB_REPOS[repoIdx]>> }
                   /\ pc' = "aborted"
                   /\ UNCHANGED <<updates, repoIdx>>
              ELSE /\ updates' = Extend(updates, report)
                   /\ repoIdx' = IF repoIdx = Len(GITHUB_REPOS) THEN repoIdx ELSE repoIdx + 1
                   /\ pc' = IF repoIdx = Len(GITHUB_REPOS) THEN "diff" ELSE "fetch"
                   /\ UNCHANGED raised
    /\ UNCHANGED <<filesVars, tagsVars, flags, found, notebooks, toClean, packaged,
                   execState, poolAlive, fs, cleared>>

\* lines 266-268 with the archive root forgotten
ClearExecAndColab(files) ==
    [fs |-> Rmtree(Rmtree(files, EXEC_IPYNB_ROOT), COLAB_IPYNB_ROOT),
     cleared |-> { EXEC_IPYNB_ROOT, COLAB_IPYNB_ROOT }]

\* lines 266-268
ClearOutputRoots(files) ==
    [fs |-> Rmtree(Rmtree(Rmtree(files, EXEC_IPYNB_ROOT), COLAB_IPYNB_ROOT),
                   ZIPPED_IPYNB_ROOT),
     cleared |-> { EXEC_IPYNB_ROOT, COLAB_IPYNB_ROOT, ZIPPED_IPYNB_ROOT }]

\* lines 273-277 without the intersection: every changed notebook
SelectChanged(found_notebooks, reprocess) ==
    { Join(SRC_IPYNB_ROOT, path) : path \in reprocess }

\* lines 273-277
SelectNotebooks(found_notebooks, reprocess) ==
    found_notebooks \cap { Join(SRC_IPYNB_ROOT, path) : path \in reprocess }

\* lines 259-277.  find_notebooks yields some of the notebooks of the source
\* cache; the removed ones are not in it any more.
Diff ==
    /\ pc = "diff"
    /\ \E yielded \in SUBSET (AllNotebooks \ updates.cleanup) :
          /\ found' = yielded
          /\ IF updates.rebuild_all # {} \/ flags.redo_all
             THEN /\ fs' = ClearOutputRoots(fs).fs
                  /\ cleared' = ClearOutputRoots(fs).cleared
                  /\ notebooks' = yielded
                  /\ toClean' = {}
                  /\ pc' = "package"
             ELSE /\ notebooks' = SelectNotebooks(yielded, updates.reprocess)
                  /\ toClean' = updates.cleanup
                  /\ pc' = "cleanup"
                  /\ UNCHANGED <<fs, cleared>>
    /\ UNCHANGED <<filesVars, tagsVars, flags, repoIdx, updates, packaged, execState,
                   poolAlive, raised>>

\* lines 279-280, one notebook
CleanUp ==
    /\ pc = "cleanup"
    /\ \E notebook \in toClean :
          LET result == clean_up_notebook(fs, notebook)
          IN  /\ fs' = result.fs
              /\ IF result.raised
                 THEN /\ raised' = raised \cup { <<"FileNotFoundError", notebook>> }
                      /\ pc' = "aborted"
                      /\ UNCHANGED toClean
                 ELSE /\ toClean' = toClean \ {notebook}
                      /\ UNCHANGED <<raised, pc>>
    /\ UNCHANGED <<filesVars, tagsVars, flags, repoIdx, updates, found, notebooks,
                   packaged, execState, poolAlive, cleared>>

\* the loop of line 279 ends
CleanUpDone ==
    /\ pc = "cleanup"
    /\ toClean = {}
    /\ pc' = "package"
    /\ UNCHANGED <<filesVars, tagsVars, flags, repoIdx, updates, found, notebooks,
                   toClean, packaged, execState, poolAlive, fs, raised, cleared>>

\* lines 284-287 with the error of needed_files caught: the loop goes on
PackageIgnoringErrors ==
    /\ pc = "package"
    /\ flags.do_proc
    /\ \E notebook \in notebooks \ packaged, bare \in BOOLEAN, listing \in PackListings :
          LET colab == create_colab_notebook(fs, notebook, bare, listing)
              zip == create_zip(colab.fs, notebook, bare, listing)
          IN  /\ raised' = IF colab.raised
                           THEN raised \cup { <<"ValueError: needed_files", notebook>> }
                           ELSE raised
              /\ fs' = IF colab.raised THEN colab.fs ELSE zip.fs
              /\ packaged' = packaged \cup {notebook}
    /\ UNCHANGED <<filesVars, tagsVars, pc, flags, repoIdx, updates, found, notebooks,
                   toClean, execState, poolAlive, cleared>>

\* lines 284-287, one notebook
Package ==
    /\ pc = "package"
    /\ flags.do_proc
    /\ \E notebook \in notebooks \ packaged, bare \in BOOLEAN, listing \in PackListings :
          LET colab == create_colab_notebook(fs, notebook, bare, listing)
              zip == create_zip(colab.fs, notebook, bare, listing)
          IN  IF colab.raised \/ zip.raised
              THEN /\ raised' = raised \cup { <<"ValueError: needed_files", notebook>> }
                   /\ fs' = IF colab.raised THEN colab.fs ELSE zip.fs
                   /\ pc' = "aborted"
                   /\ UNCHANGED packaged
              ELSE /\ fs' = zip.fs
                   /\ packaged' = packaged \cup {notebook}
                   /\ UNCHANGED <<raised, pc>>
    /\ UNCHANGED <<filesVars, tagsVars, flags, repoIdx, updates, found, notebooks,
                   toClean, execState, poolAlive, cleared>>

\* line 283 is false, or the loop of line 284 ends
PackageDone ==
    /\ pc = "package"
    /\ ~flags.do_proc \/ packaged = notebooks
    /\ pc' = "execute"
    /\ UNCHANGED <<filesVars, tagsVars, flags, repoIdx, updates, found, notebooks,
                   toClean, packaged, execState, poolAlive, fs, raised, cleared>>

\* line 290 is false
ExecuteSkipped ==
    /\ pc = "execute"
    /\ ~flags.do_exec
    /\ pc' = "done"
    /\ UNCHANGED <<filesVars, tagsVars, flags, repoIdx, updates, found, notebooks,
                   toClean, packaged, execState, poolAlive, fs, raised, cleared>>

\* line 293: Pool().__enter__
PoolEnter ==
    /\ pc = "execute"
    /\ flags.do_exec
    /\ poolAlive' = TRUE
    /\ pc' = "pool"
    /\ UNCHANGED <<filesVars, tagsVars, flags, repoIdx, updates, found, notebooks,
                   toClean, packaged, execState, fs, raised, cleared>>

\* line 296: delay_iterator yields a notebook and a worker takes it
Submit ==
    /\ poolAlive
    /\ \E notebook \in notebooks :
          /\ execState[notebook] = "pending"
          /\ execState' = [execState EXCEPT ![notebook] = "running"]
    /\ UNCHANGED <<filesVars, tagsVars, pc, flags, repoIdx, updates, found, notebooks,
                   toClean, packaged, poolAlive, fs, raised, cleared>>

\* execute_notebook (157-197) in a worker: the engine raises (186-189), or
\* the executed notebook is written (192-195)
ExecuteNotebook ==
    /\ poolAlive
    /\ \E notebook \in notebooks :
          /\ execState[notebook] = "running"
          /\ \/ /\ execState' = [execState EXCEPT ![notebook] = "failed"]
                /\ raised' = raised \cup { <<"ValueError: execute_notebook", notebook>> }
                /\ UNCHANGED fs
             \/ /\ IsRelativeTo(notebook, SRC_IPYNB_ROOT)
                /\ execState' = [execState EXCEPT ![notebook] = "written"]
                /\ fs' = fs \cup { ExecPath(notebook) }
                /\ UNCHANGED raised
    /\ UNCHANGED <<filesVars, tagsVars, pc, flags, repoIdx, updates, found, notebooks,
                   toClean, packaged, poolAlive, cleared>>

\* line 296 re-raises a worker's error and main ends, without leaving the
\* with block of line 293: the workers stay
PoolFailureNoTerminate ==
    /\ pc = "pool"
    /\ \E notebook \in notebooks : execState[notebook] = "failed"
    /\ pc' = "aborted"
    /\ UNCHANGED <<filesVars, tagsVars, flags, repoIdx, updates, found, notebooks,
                   toClean, packaged, execState, poolAlive, fs, raised, cleared>>

\* line 296 re-raises a worker's error; the with block of line 293 terminates
\* the pool on the way out
PoolFailure ==
    /\ pc = "pool"
    /\ \E notebook \in notebooks : execState[notebook] = "failed"
    /\ poolAlive' = FALSE
    /\ pc' = "aborted"
    /\ UNCHANGED <<filesVars, tagsVars, flags, repoIdx, updates, found, notebooks,
                   toClean, packaged, execState, fs, raised, cleared>>

\* line 296 has every result; the with block ends
PoolDone ==
    /\ pc = "pool"
    /\ \A notebook \in notebooks : execState[notebook] = "written"
    /\ poolAlive' = FALSE
    /\ pc' = "done"
    /\ UNCHANGED <<filesVars, tagsVars, flags, repoIdx, updates, found, notebooks,
                   toClean, packaged, execState, fs, raised, cleared>>

Next ==
    \/ Fetch
    \/ Diff
    \/ CleanUp
    \/ CleanUpDone
    \/ Package
    \/ PackageDone
    \/ ExecuteSkipped
    \/ PoolEnter
    \/ Submit
    \/ ExecuteNotebook
    \/ PoolFailure
    \/ PoolDone

Spec == Init /\ [][Next]_vars

(***************************************************************************)
(* Properties of main, under Spec.                                         *)
(***************************************************************************)
\* line 260
Rebuild == updates.rebuild_all # {} \/ flags.redo_all

RaisedBy(kind) == { event[2] : event \in { e \in raised : e[1] = kind } }

HttpFailed == RaisedBy("HTTPError")

ConfigFailed == RaisedBy("ValueError: needed_files")

ExecFailed == RaisedBy("ValueError: execute_notebook")

\* main is past the loop of line 245
PastFetch ==
    \/ pc \in {"cleanup", "package", "execute", "pool", "done"}
    \/ pc = "aborted" /\ Kinds \cap {"HTTPError", "ValueError"} = {}

\* main is past the loop of line 279
PastCleanUp ==
    \/ pc \in {"package", "execute", "pool", "done"}
    \/ pc = "aborted" /\ (ConfigFailed # {} \/ ExecFailed # {})

Written == { notebook \in AllNotebooks : execState[notebook] = "written" }

\* C4 as stated: when main has ended on the failure of a notebook, every
\* other notebook a worker had taken is executed and its output is written.
C4_OthersStillExecuted ==
    (pc = "aborted" /\ ExecFailed # {})
    => \A notebook \in notebooks \ ExecFailed :
          execState[notebook] # "pending"
          => execState[notebook] = "written" /\ ExecPath(notebook) \in fs

\* C4, amended: an execution failure ends the batch.  On the step with
\* which main ends on a worker's error the pool is terminated, and no
\* notebook is executed and no output written on that step or after it.
C4_FailureEndsBatch ==
    [][ (pc' = "aborted" /\ ExecFailed' # {})
        => (~poolAlive' /\ fs' = fs /\ execState' = execState) ]_vars

C4_Witness ==
    /\ pc = "aborted"
    /\ ~poolAlive
    /\ \E a, b \in notebooks :
          /\ execState[a] = "failed"
          /\ execState[b] = "running"
          /\ ExecPath(b) \notin fs

C6_FullRebuildClearsFirst ==
    (Rebuild /\ PastFetch)
    => /\ cleared = OutputRoots
       /\ \A path \in fs :
            /\ (IsUnder(path, ZIPPED_IPYNB_ROOT) \/ IsUnder(path, COLAB_IPYNB_ROOT))
                 => \E notebook \in packaged \cup ConfigFailed :
                       path \in PackagedFiles(notebook)
            /\ IsUnder(path, EXEC_IPYNB_ROOT)
                 => \E notebook \in Written : path = ExecPath(notebook)

C6_Witness ==
    /\ Rebuild
    /\ pc = "done"
    /\ found = {}
    /\ ~flags.do_proc
    /\ ~flags.do_exec
    /\ cleared = OutputRoots
    /\ fs = {}

\* C7: in an incremental run, once the first notebook is packaged (or main
\* is past the clean-up loop), the clean-up loop is over and no removed
\* notebook has its archive, its Colab directory or its executed copy.
C7_RemovedDeletedBeforePackaging ==
    (~Rebuild /\ (PastCleanUp \/ packaged # {}))
    => /\ toClean = {}
       /\ \A notebook \in updates.cleanup :
            /\ notebook_zip(notebook) \notin fs
            /\ Parent(notebook_colab(notebook)) \notin fs
            /\ ExecPath(notebook) \notin fs

C7_Witness ==
    /\ ~Rebuild
    /\ updates.cleanup # {}
    /\ packaged # {}
    /\ \A notebook \in updates.cleanup : PackagedFiles(notebook) \cap fs = {}

\* the notebooks that were found and are reported changed
FoundAndChanged ==
    { SrcPath(k) : k \in { i \in NotebookIds : /\ SrcPath(i) \in found
                                                /\ RelPath(i) \in updates.reprocess } }

\* C8: in an incremental run the notebooks selected are those found and
\* reported changed; nothing else is packaged or executed, a run that ends
\* normally has packaged (unless skipped) and executed (unless skipped) all
\* of them, and no output root is cleared.
C8_IncrementalSelection ==
    (~Rebuild /\ PastFetch)
    => /\ notebooks = FoundAndChanged
       /\ packaged \subseteq FoundAndChanged
       /\ { notebook \in AllNotebooks : execState[notebook] # "pending" }
             \subseteq FoundAndChanged
       /\ cleared = {}
       /\ pc = "done"
            => /\ flags.do_proc => packaged = FoundAndChanged
               /\ flags.do_exec => Written = FoundAndChanged

C8_Witness ==
    /\ ~Rebuild
    /\ pc = "done"
    /\ flags.do_proc
    /\ flags.do_exec
    /\ packaged # {}
    /\ Written = packaged
    /\ \E k \in NotebookIds : RelPath(k) \in updates.reprocess /\ SrcPath(k) \notin found

\* C10: once the release listing of a repo has answered with an error
\* status, main has ended with that one error, without asking again: no
\* further repo is fetched, find_notebooks is not reached, no root is
\* cleared, no clean-up is started, and nothing is packaged or executed.
C10_HttpErrorEndsRun ==
    HttpFailed # {}
    => /\ pc = "aborted"
       /\ Cardinality(raised) = 1
       /\ HttpFailed = { GITHUB_REPOS[repoIdx] }
       /\ cleared = {}
       /\ found = {}
       /\ notebooks = {}
       /\ toClean = {}
       /\ packaged = {}
       /\ ~poolAlive
       /\ \A notebook \in AllNotebooks : execState[notebook] = "pending"

C10_Witness ==
    /\ HttpFailed = { GITHUB_REPOS[2] }
    /\ pc = "aborted"
    /\ updates.cleanup # {}
    /\ fs # {}

====
